---- MODULE Spec2Model ----
(***************************************************************************)
(* Model of the buffered dice of the-learning-games (include/dice.h):      *)
(* fixed_buffer_dice_t keeps two buffers, `read` and `write`; roll()       *)
(* drains `read` by index while a std::async task fills `write`, and       *)
(* swap_buffers() exchanges the two when `read` is used up.                *)
(*                                                                         *)
(* Every statement of roll(), swap_buffers() and of the fill task is one   *)
(* action, so that each interleaving of the consumer(s) with the fill task *)
(* is a behaviour of the model.                                            *)
(***************************************************************************)
EXTENDS Integers, Sequences, FiniteSets, TLC

(***************************************************************************)
(* Bounds.  The source uses buffers of 64M elements and a 6 sided dice;    *)
(* the model scales both down.                                             *)
(***************************************************************************)
HalfLen == 2            \* elements of one buffer (buffer_length / 2)
Sides == 2              \* sides of the underlying dice

\* static constexpr auto buffer_length = 128 * 1024 * 1024, scaled down
buffer_length == 2 * HalfLen

\* number of roll() calls the driver makes: more than two buffers' worth,
\* so that the third swap is reached
MaxRolls == buffer_length + 1

\* number of roll() calls made in all once a second, unsynchronised thread
\* takes part: enough to use up a buffer and come to the next swap
MaxRollsMC == HalfLen + 1

\* the two arrays allocated by the constructor
Buffers == {"A", "B"}

\* the threads that may call roll(); the benchmark driver has one (thread 1)
Consumers == {1, 2}
SingleConsumer == {1}

\* a slot of `new roll_t[...]` that nothing has written yet
Uninit == 0

\* swap_mutex when no thread owns it
Free == 0

\* a value the underlying dice may return: distribution(1, sides)
DiceValues == 1 .. Sides

VARIABLES
    read,           \* std::unique_ptr<roll_t[]> read : the buffer it points to
    write,          \* std::unique_ptr<roll_t[]> write
    buf,            \* contents of the two arrays
    read_index,     \* std::atomic_ptrdiff_t read_index
    swap_mutex,     \* Free, or the thread that owns the mutex
    writer,         \* std::future<void> writer: "valid" or "invalid"
    task,           \* the std::async task: [status, target, pos]
    pc,             \* per consumer thread: the statement it is at
    idx,            \* per thread: the value read_index++ gave it
    callIdx,        \* per thread: read_index when its current roll() began
    ret,            \* the value the last roll() that returned gave
    threw,          \* per thread: its last roll() ended by an exception
    pending,        \* values produced by d.roll() and not yet delivered
    expected,       \* the value that was oldest in pending at the last return
    produced,       \* number of d.roll() calls made
    delivered,      \* number of roll() calls that returned a value
    rolls,          \* per thread: number of roll() calls it has begun
    launches,       \* number of fill_buffer() calls (std::async launches)
    awaits,         \* number of writer.get() calls that returned or threw
    swaps,          \* number of swap(read, write) executions
    exhausts,       \* number of times read_index became buffer_length / 2
    unwritten       \* some roll() returned a slot no completed fill wrote

\* the state of the buffered dice
diceVars == << read, write, buf, read_index, swap_mutex, writer, task, pc, idx,
               callIdx, ret, threw, pending, expected, produced, delivered,
               rolls, launches, awaits, swaps, exhausts, unwritten >>

(***************************************************************************)
(* upto3_dice_t (include/dice.h): the dice that is rolled again on its     *)
(* highest value, up to three times.                                       *)
(***************************************************************************)
VARIABLES
    u_pc,           \* upto3_dice_t::roll(): "idle", or the draw it is about to make
    u_draws,        \* the values dice.roll() gave in the current or last call
    u_result,       \* the tuple the last roll() returned
    u_calls,        \* number of roll() calls begun
    u_drawn,        \* number of dice.roll() calls made in all
    u_base          \* the value of u_drawn when the current or last call began

rollerVars == << u_pc, u_draws, u_result, u_calls, u_drawn, u_base >>

(***************************************************************************)
(* board_builder_t and board_t (unnamed/part_001).                         *)
(***************************************************************************)
VARIABLES
    jumps_,         \* board_builder_t::jumps_, a sequence of << from, to >>
    b_pc,           \* "building", "finalized" (after finalize()), "built" (a board_t exists),
                    \* "hung" (a take_all_jumps call never returns), "undefined"
                    \* (move has accessed players out of range)
    b_last,         \* the arguments of the last add_jump call, << >> if none
    b_error,        \* what the last add_jump call threw, "" if it returned
    arena,          \* board_t::arena, a function on 0 .. side * side; << >> before construction
    adv             \* the last advance call: << position, count, result >>

boardVars == << jumps_, b_pc, b_last, b_error, arena, adv >>

(***************************************************************************)
(* game_t (unnamed/part_001).                                              *)
(***************************************************************************)
VARIABLES
    players,          \* game_t::players, a function on 0 .. n_players - 1
    current_player_,  \* game_t::current_player_
    state_,           \* game_t::state_; "none" before the game_t is constructed
    g_op,             \* the last call on the game_t: "new", "move", "reset", "remove"
    m_args,           \* the arguments of the last move or remove_player call
    m_before,         \* current_player_, players and state_ when that call began
    m_trace,          \* the advance calls of the last move: << position, offset, result >>
    g_ret             \* what the last remove_player call returned

gameVars == << players, current_player_, state_, g_op, m_args, m_before,
               m_trace, g_ret >>

(***************************************************************************)
(* A dice_t constructed with any number of sides, under an upto3_dice_t    *)
(* (include/dice.h).                                                       *)
(***************************************************************************)
VARIABLES
    die_pc,           \* "none", "made" (the constructor returned), "aborted"
    die_sides,        \* the argument of dice_t::dice_t, 0 before construction
    die_draws,        \* the dice.roll() values of the last upto3_dice_t::roll()
    die_result,       \* the tuple that call returned, << >> if none
    die_rolls         \* number of upto3_dice_t::roll() calls made

dieVars == << die_pc, die_sides, die_draws, die_result, die_rolls >>

(***************************************************************************)
(* board_builder_t, board_t and game_t of the two earlier headers,         *)
(* snakes-and-ladders/include/types.h and                                  *)
(* snakes-and-ladders/include/snakes-and-ladders/types.h.                  *)
(***************************************************************************)
VARIABLES
    th_header,          \* the header the program includes, "none" before a builder is made
    th_jumps_,          \* board_builder_t::jumps_, a sequence of << from, to >>
    th_pc,              \* "none", "building", "finalized", "built" (a board_t exists),
                        \* "hung" (the jump loop of a step never ends), "undefined"
                        \* (the arena was read out of range)
    th_op,              \* the last call: "builder", "add_jump", "finalize", "board",
                        \* "game", "move", "reset"
    th_error,           \* what the last builder call threw, "" if it returned
    th_arena,           \* board_t::arena, a sequence: cell c is th_arena[c + 1]
    th_players,         \* game_t::players, a function on 0 .. n_players - 1
    th_current_player_, \* game_t::current_player_
    th_state_,          \* game_t::state_; "none" before the game_t is constructed
    th_args,            \* the arguments of the last move call
    th_before           \* current_player_, players and state_ when that call began

typesVars == << th_header, th_jumps_, th_pc, th_op, th_error, th_arena,
                th_players, th_current_player_, th_state_, th_args, th_before >>

\* everything that is not part of the buffered dice
otherVars == << rollerVars, boardVars, gameVars, dieVars, typesVars >>

vars == << diceVars, otherVars >>

\* std::atomic_ptrdiff_t read_index = buffer_length / 2
InitReadIndexOffByOne == (buffer_length \div 2) - 1
InitReadIndex == buffer_length \div 2

\* the task std::async creates in fill_buffer(): not yet running, and
\* write.get() not yet evaluated
NewTask == [status |-> "launched", target |-> "none", pos |-> 0]

(***************************************************************************)
(* The constructor: allocates both arrays (uninitialised), and calls       *)
(* fill_buffer(), which launches the first fill.                           *)
(***************************************************************************)
DiceInit ==
    /\ read = "A"
    /\ write = "B"
    /\ buf = [b \in Buffers |-> [i \in 0 .. (buffer_length \div 2) - 1 |-> Uninit]]
    /\ read_index = InitReadIndex
    /\ swap_mutex = Free
    /\ writer = "valid"
    /\ task = NewTask
    /\ pc = [t \in Consumers |-> "idle"]
    /\ idx = [t \in Consumers |-> 0]
    /\ callIdx = [t \in Consumers |-> 0]
    /\ ret = 0
    /\ threw = [t \in Consumers |-> FALSE]
    /\ pending = << >>
    /\ expected = 0
    /\ produced = 0
    /\ delivered = 0
    /\ rolls = [t \in Consumers |-> 0]
    /\ launches = 1
    /\ awaits = 0
    /\ swaps = 0
    /\ exhausts = IF InitReadIndex = buffer_length \div 2 THEN 1 ELSE 0
    /\ unwritten = FALSE

(***************************************************************************)
(* The fill task: the lambda given to std::async in fill_buffer().         *)
(***************************************************************************)

\* the task starts running and evaluates write.get()
FillStart ==
    /\ task.status = "launched"
    /\ task' = [status |-> "running", target |-> write, pos |-> 0]
    /\ UNCHANGED << read, write, buf, read_index, swap_mutex, writer, pc, idx,
                    callIdx, ret, threw, pending, expected, produced,
                    delivered, rolls, launches, awaits, swaps, exhausts,
                    unwritten >>
    /\ UNCHANGED otherVars

\* the status of the task after it has written `n` elements
StatusAfterNeverDone(n) == "running"
StatusAfter(n) == IF n = buffer_length \div 2 THEN "done" ELSE "running"

\* one iteration of std::generate_n: *out++ = d.roll()
FillWrite ==
    /\ task.status = "running"
    /\ task.pos < buffer_length \div 2
    /\ \E v \in DiceValues :
          /\ buf' = [buf EXCEPT ![task.target][task.pos] = v]
          /\ pending' = Append(pending, v)
    /\ produced' = produced + 1
    /\ task' = [task EXCEPT !.pos = task.pos + 1,
                            !.status = StatusAfter(task.pos + 1)]
    /\ UNCHANGED << read, write, read_index, swap_mutex, writer, pc, idx,
                    callIdx, ret, threw, expected, delivered, rolls,
                    launches, awaits, swaps, exhausts, unwritten >>
    /\ UNCHANGED otherVars

\* the task ends by an exception, which std::async stores in the future
FillFail ==
    /\ task.status = "running"
    /\ task.pos < buffer_length \div 2
    /\ task' = [task EXCEPT !.status = "failed"]
    /\ UNCHANGED << read, write, buf, read_index, swap_mutex, writer, pc, idx,
                    callIdx, ret, threw, pending, expected, produced,
                    delivered, rolls, launches, awaits, swaps, exhausts,
                    unwritten >>
    /\ UNCHANGED otherVars

(***************************************************************************)
(* roll() and swap_buffers(), statement by statement, for thread t.        *)
(*   idle     not inside roll()                                            *)
(*   lock     swap_buffers(): std::lock_guard guard(swap_mutex)            *)
(*   recheck  if (read_index != buffer_length / 2) return                  *)
(*   get      writer.get()                                                 *)
(*   swap     swap(read, write)                                            *)
(*   reset    read_index = {}                                              *)
(*   fill     fill_buffer()                                                *)
(*   unlock   end of swap_buffers(): the guard releases the mutex          *)
(*   fetch    read_index++                                                 *)
(*   deref    return read[...]                                             *)
(*   dead     roll() threw; the driver does not catch, the program ends    *)
(***************************************************************************)

\* number of roll() calls begun so far, by all threads
TotalRolls == rolls[1] + rolls[2]

\* the driver's loop: thread t still has a roll() call to make
MayCall(t) ==
    /\ TotalRolls < MaxRolls
    /\ (t \notin SingleConsumer \/ rolls[2] > 0) => TotalRolls < MaxRollsMC

\* swap_buffers() called whatever read_index is
RollCallAlwaysSwap(t) ==
    /\ pc[t] = "idle"
    /\ MayCall(t)
    /\ rolls' = [rolls EXCEPT ![t] = rolls[t] + 1]
    /\ callIdx' = [callIdx EXCEPT ![t] = read_index]
    /\ threw' = [threw EXCEPT ![t] = FALSE]
    /\ pc' = [pc EXCEPT ![t] = "lock"]
    /\ UNCHANGED << read, write, buf, read_index, swap_mutex, writer, task,
                    idx, ret, pending, expected, produced, delivered,
                    launches, awaits, swaps, exhausts, unwritten >>
    /\ UNCHANGED otherVars

\* roll() is entered and `read_index == buffer_length / 2` is evaluated
RollCall(t) ==
    /\ pc[t] = "idle"
    /\ MayCall(t)
    /\ rolls' = [rolls EXCEPT ![t] = rolls[t] + 1]
    /\ callIdx' = [callIdx EXCEPT ![t] = read_index]
    /\ threw' = [threw EXCEPT ![t] = FALSE]
    /\ pc' = [pc EXCEPT ![t] =
                 IF read_index = buffer_length \div 2 THEN "lock" ELSE "fetch"]
    /\ UNCHANGED << read, write, buf, read_index, swap_mutex, writer, task,
                    idx, ret, pending, expected, produced, delivered,
                    launches, awaits, swaps, exhausts, unwritten >>
    /\ UNCHANGED otherVars

\* std::lock_guard<std::mutex> guard(swap_mutex)
Lock(t) ==
    /\ pc[t] = "lock"
    /\ swap_mutex = Free
    /\ swap_mutex' = t
    /\ pc' = [pc EXCEPT ![t] = "recheck"]
    /\ UNCHANGED << read, write, buf, read_index, writer, task, idx, callIdx,
                    ret, threw, pending, expected, produced, delivered, rolls,
                    launches, awaits, swaps, exhausts, unwritten >>
    /\ UNCHANGED otherVars

\* if (read_index != buffer_length / 2) return;  with the writer.get() that
\* follows left out
RecheckNoGet(t) ==
    /\ pc[t] = "recheck"
    /\ IF read_index # buffer_length \div 2
          THEN /\ swap_mutex' = Free
               /\ pc' = [pc EXCEPT ![t] = "fetch"]
          ELSE /\ swap_mutex' = swap_mutex
               /\ pc' = [pc EXCEPT ![t] = "swap"]
    /\ UNCHANGED << read, write, buf, read_index, writer, task, idx, callIdx,
                    ret, threw, pending, expected, produced, delivered, rolls,
                    launches, awaits, swaps, exhausts, unwritten >>
    /\ UNCHANGED otherVars

\* the re-check left out: swap_buffers() goes on whatever read_index is
RecheckAlwaysOn(t) ==
    /\ pc[t] = "recheck"
    /\ pc' = [pc EXCEPT ![t] = "get"]
    /\ UNCHANGED << read, write, buf, read_index, swap_mutex, writer, task,
                    idx, callIdx, ret, threw, pending, expected, produced,
                    delivered, rolls, launches, awaits, swaps, exhausts,
                    unwritten >>
    /\ UNCHANGED otherVars

\* if (read_index != buffer_length / 2) return;
\* the early return destroys the guard, which releases the mutex
Recheck(t) ==
    /\ pc[t] = "recheck"
    /\ IF read_index # buffer_length \div 2
          THEN /\ swap_mutex' = Free
               /\ pc' = [pc EXCEPT ![t] = "fetch"]
          ELSE /\ swap_mutex' = swap_mutex
               /\ pc' = [pc EXCEPT ![t] = "get"]
    /\ UNCHANGED << read, write, buf, read_index, writer, task, idx, callIdx,
                    ret, threw, pending, expected, produced, delivered, rolls,
                    launches, awaits, swaps, exhausts, unwritten >>
    /\ UNCHANGED otherVars

\* writer.get() with a stored exception swallowed
WriterGetSwallow(t) ==
    /\ pc[t] = "get"
    /\ writer = "valid"
    /\ task.status \in {"done", "failed"}
    /\ writer' = "invalid"
    /\ awaits' = awaits + 1
    /\ pc' = [pc EXCEPT ![t] = "swap"]
    /\ UNCHANGED << read, write, buf, read_index, swap_mutex, task, idx,
                    callIdx, ret, threw, pending, expected, produced,
                    delivered, rolls, launches, swaps, exhausts, unwritten >>
    /\ UNCHANGED otherVars

\* writer.get(): blocks until the task has ended; returns, or rethrows the
\* exception the task ended by.  The exception leaves swap_buffers() and
\* roll(); unwinding destroys the guard.  get() on a future without shared
\* state throws std::future_error in the standard libraries.
WriterGet(t) ==
    /\ pc[t] = "get"
    /\ \/ /\ writer = "valid"
          /\ task.status = "done"
          /\ writer' = "invalid"
          /\ awaits' = awaits + 1
          /\ pc' = [pc EXCEPT ![t] = "swap"]
          /\ UNCHANGED << swap_mutex, threw >>
       \/ /\ writer = "valid"
          /\ task.status = "failed"
          /\ writer' = "invalid"
          /\ awaits' = awaits + 1
          /\ swap_mutex' = Free
          /\ threw' = [threw EXCEPT ![t] = TRUE]
          /\ pc' = [pc EXCEPT ![t] = "dead"]
       \/ /\ writer = "invalid"
          /\ swap_mutex' = Free
          /\ threw' = [threw EXCEPT ![t] = TRUE]
          /\ pc' = [pc EXCEPT ![t] = "dead"]
          /\ UNCHANGED << writer, awaits >>
    /\ UNCHANGED << read, write, buf, read_index, task, idx, callIdx, ret,
                    pending, expected, produced, delivered, rolls, launches,
                    swaps, exhausts, unwritten >>
    /\ UNCHANGED otherVars

\* the contents of `write` copied into `read` instead of the exchange
SwapCopy(t) ==
    /\ pc[t] = "swap"
    /\ buf' = [buf EXCEPT ![read] = buf[write]]
    /\ swaps' = swaps + 1
    /\ pc' = [pc EXCEPT ![t] = "reset"]
    /\ UNCHANGED << read, write, read_index, swap_mutex, writer, task, idx,
                    callIdx, ret, threw, pending, expected, produced,
                    delivered, rolls, launches, awaits, exhausts, unwritten >>
    /\ UNCHANGED otherVars

\* swap(read, write): the two unique_ptr exchange the arrays they own.  The
\* exchange of the raw pointers passes through read = write = the new
\* array; a concurrent reader of `read` sees the old or the new array, which
\* is what it sees before or after this step.
Swap(t) ==
    /\ pc[t] = "swap"
    /\ read' = write
    /\ write' = read
    /\ swaps' = swaps + 1
    /\ pc' = [pc EXCEPT ![t] = "reset"]
    /\ UNCHANGED << buf, read_index, swap_mutex, writer, task, idx, callIdx,
                    ret, threw, pending, expected, produced, delivered, rolls,
                    launches, awaits, exhausts, unwritten >>
    /\ UNCHANGED otherVars

\* read_index = {} with the critical section ending here
ResetIndexUnlockEarly(t) ==
    /\ pc[t] = "reset"
    /\ read_index' = 0
    /\ swap_mutex' = Free
    /\ pc' = [pc EXCEPT ![t] = "fill"]
    /\ UNCHANGED << read, write, buf, writer, task, idx, callIdx, ret, threw,
                    pending, expected, produced, delivered, rolls, launches,
                    awaits, swaps, exhausts, unwritten >>
    /\ UNCHANGED otherVars

\* read_index = {}
ResetIndex(t) ==
    /\ pc[t] = "reset"
    /\ read_index' = 0
    /\ pc' = [pc EXCEPT ![t] = "fill"]
    /\ UNCHANGED << read, write, buf, swap_mutex, writer, task, idx, callIdx,
                    ret, threw, pending, expected, produced, delivered, rolls,
                    launches, awaits, swaps, exhausts, unwritten >>
    /\ UNCHANGED otherVars

\* fill_buffer(): writer = std::async(std::launch::async, ...)
Launch(t) ==
    /\ pc[t] = "fill"
    /\ writer' = "valid"
    /\ task' = NewTask
    /\ launches' = launches + 1
    /\ pc' = [pc EXCEPT ![t] = "unlock"]
    /\ UNCHANGED << read, write, buf, read_index, swap_mutex, idx, callIdx,
                    ret, threw, pending, expected, produced, delivered, rolls,
                    awaits, swaps, exhausts, unwritten >>
    /\ UNCHANGED otherVars

\* swap_buffers() returns: the guard is destroyed and releases the mutex
Unlock(t) ==
    /\ pc[t] = "unlock"
    /\ swap_mutex' = Free
    /\ pc' = [pc EXCEPT ![t] = "fetch"]
    /\ UNCHANGED << read, write, buf, read_index, writer, task, idx, callIdx,
                    ret, threw, pending, expected, produced, delivered, rolls,
                    launches, awaits, swaps, exhausts, unwritten >>
    /\ UNCHANGED otherVars

\* read[++read_index] in place of read[read_index++]
FetchAddPreIncrement(t) ==
    /\ pc[t] = "fetch"
    /\ idx' = [idx EXCEPT ![t] = read_index + 1]
    /\ read_index' = read_index + 1
    /\ exhausts' = IF read_index + 1 = buffer_length \div 2
                      THEN exhausts + 1 ELSE exhausts
    /\ pc' = [pc EXCEPT ![t] = "deref"]
    /\ UNCHANGED << read, write, buf, swap_mutex, writer, task, callIdx, ret,
                    threw, pending, expected, produced, delivered, rolls,
                    launches, awaits, swaps, unwritten >>
    /\ UNCHANGED otherVars

\* read_index++ : an atomic fetch-and-add, which yields the old value
FetchAdd(t) ==
    /\ pc[t] = "fetch"
    /\ idx' = [idx EXCEPT ![t] = read_index]
    /\ read_index' = read_index + 1
    /\ exhausts' = IF read_index + 1 = buffer_length \div 2
                      THEN exhausts + 1 ELSE exhausts
    /\ pc' = [pc EXCEPT ![t] = "deref"]
    /\ UNCHANGED << read, write, buf, swap_mutex, writer, task, callIdx, ret,
                    threw, pending, expected, produced, delivered, rolls,
                    launches, awaits, swaps, unwritten >>
    /\ UNCHANGED otherVars

\* slot i of array b holds a value that a fill wrote
Written(b, i) ==
    /\ i \in 0 .. (buffer_length \div 2) - 1
    /\ buf[b][i] # Uninit

\* array b is the target of a fill that has not completed
BeingFilled(b) ==
    /\ task.target = b
    /\ task.status \in {"running", "failed"}

\* return read[i]: the element of the array `read` owns now.  An index past
\* the array and an uninitialised element are undefined behaviour: any value.
Deref(t) ==
    /\ pc[t] = "deref"
    /\ \E v \in DiceValues :
          /\ Written(read, idx[t]) => v = buf[read][idx[t]]
          /\ ret' = v
    /\ unwritten' = (unwritten \/ ~Written(read, idx[t]) \/ BeingFilled(read))
    /\ expected' = IF pending # << >> THEN Head(pending) ELSE 0
    /\ pending' = IF pending # << >> THEN Tail(pending) ELSE pending
    /\ delivered' = delivered + 1
    /\ pc' = [pc EXCEPT ![t] = "idle"]
    /\ UNCHANGED << read, write, buf, read_index, swap_mutex, writer, task,
                    idx, callIdx, threw, produced, rolls, launches, awaits,
                    swaps, exhausts >>
    /\ UNCHANGED otherVars

\* one step of thread t inside or into roll()
Consumer(t) ==
    \/ RollCall(t)
    \/ Lock(t)
    \/ Recheck(t)
    \/ WriterGet(t)
    \/ Swap(t)
    \/ ResetIndex(t)
    \/ Launch(t)
    \/ Unlock(t)
    \/ FetchAdd(t)
    \/ Deref(t)

FillTask == FillStart \/ FillWrite

(***************************************************************************)
(* upto3_dice_t::roll(): one action per dice.roll() it makes.              *)
(***************************************************************************)

\* static constexpr auto const nil = typename Dice::roll_t{}
nil == 0

\* number of upto3_dice_t::roll() calls the driver makes
MaxUpto3Calls == MaxRolls

\* the statements `auto r0 = dice.roll()`, `auto r1 = ...`, `auto r2 = ...`
DrawLabels == << "r0", "r1", "r2" >>

RollerInit ==
    /\ u_pc = "idle"
    /\ u_draws = << >>
    /\ u_result = << >>
    /\ u_calls = 0
    /\ u_drawn = 0
    /\ u_base = 0

\* std::make_tuple(r0, nil, r1): the padding put before the last draw
Pad3Misplaced(ds) ==
    IF Len(ds) = 2 THEN << ds[1], nil, ds[2] >>
    ELSE [i \in 1 .. 3 |-> IF i <= Len(ds) THEN ds[i] ELSE nil]

\* std::make_tuple(r0, nil, nil), (r0, r1, nil), (r0, r1, r2): the draws
\* made so far, then nil
Pad3(ds) == [i \in 1 .. 3 |-> IF i <= Len(ds) THEN ds[i] ELSE nil]

\* the three draws returned as they are
AllMaxKept(ds) == ds

\* return std::make_tuple(nil, nil, nil) on rolling { sides, sides, sides }
AllMax(ds) == << nil, nil, nil >>

\* upto3_dice_t::roll() is entered
Upto3Call ==
    /\ u_pc = "idle"
    /\ u_calls < MaxUpto3Calls
    /\ u_pc' = DrawLabels[1]
    /\ u_draws' = << >>
    /\ u_calls' = u_calls + 1
    /\ u_base' = u_drawn
    /\ UNCHANGED << u_result, u_drawn >>
    /\ UNCHANGED << diceVars, boardVars, gameVars, dieVars, typesVars >>

\* auto rN = dice.roll(); if (rN != dice.sides()) return ...;
\* after r2: return std::make_tuple(nil, nil, nil)
Upto3Draw ==
    /\ u_pc # "idle"
    /\ \E d \in DiceValues :
          LET ds == Append(u_draws, d) IN
          /\ u_draws' = ds
          /\ IF d # Sides
                THEN /\ u_result' = Pad3(ds)
                     /\ u_pc' = "idle"
                ELSE IF Len(ds) = 3
                        THEN /\ u_result' = AllMax(ds)
                             /\ u_pc' = "idle"
                        ELSE /\ u_result' = u_result
                             /\ u_pc' = DrawLabels[Len(ds) + 1]
    /\ u_drawn' = u_drawn + 1
    /\ UNCHANGED << u_calls, u_base >>
    /\ UNCHANGED << diceVars, boardVars, gameVars, dieVars, typesVars >>

(***************************************************************************)
(* board_builder_t: add_jump, finalize.                                    *)
(***************************************************************************)

\* the side length given to board_builder_t
Side == 3

\* the number of add_jump calls made on one builder
MaxJumps == 2

\* cell_iterator_t{ side_ } * side_
LastCell == Side * Side

\* the cells of an arena: begin() .. end() - 1
Cells == 0 .. LastCell

\* the values add_jump is called with: below the start, the first cells,
\* the last cells, and the cell the game ends on
JumpEnds == {0 - 1, 0, 1, 2, 3, LastCell - 2, LastCell - 1, LastCell}

Abs(x) == IF x < 0 THEN 0 - x ELSE x

\* (to - from < 0) && (from == side_ * side_ - 1)
IsSnakeAtEnd(from, to) == to - from < 0 /\ from = Side * Side - 1

\* the checks of add_jump in their order: the message thrown, "" if none
AddJumpError(from, to) ==
    IF from < 0 \/ to < 0
        THEN "pre: source or destination less than start"
    ELSE IF from >= Side * Side \/ to >= Side * Side
        THEN "pre: source or destination greater than end"
    ELSE IF Abs(to - from) < 2
        THEN "pre: jump length less than two"
    ELSE IF to - from > 0 /\ from = 0
        THEN "pre: ladder at start"
    ELSE IF IsSnakeAtEnd(from, to)
        THEN "pre: snake at end"
    ELSE ""

\* operator< of std::pair
PairLess(a, b) == a[1] < b[1] \/ (a[1] = b[1] /\ a[2] < b[2])

RECURSIVE InsertSorted(_, _)
InsertSorted(x, s) ==
    IF s = << >> THEN << x >>
    ELSE IF PairLess(x, Head(s)) THEN << x >> \o s
    ELSE << Head(s) >> \o InsertSorted(x, Tail(s))

\* std::sort(begin(jumps_), end(jumps_))
RECURSIVE SortJumps(_)
SortJumps(s) ==
    IF s = << >> THEN << >> ELSE InsertSorted(Head(s), SortJumps(Tail(s)))

BoardInit ==
    /\ jumps_ = << >>
    /\ b_pc = "building"
    /\ b_last = << >>
    /\ b_error = ""
    /\ arena = << >>
    /\ adv = << >>

\* add_jump with emplace_back placed before the checks: a rejected jump
\* stays in the list
AddJumpKeepRejected(from, to) ==
    /\ b_pc = "building"
    /\ Len(jumps_) < MaxJumps
    /\ b_last' = << from, to >>
    /\ b_error' = AddJumpError(from, to)
    /\ jumps_' = Append(jumps_, << from, to >>)
    /\ UNCHANGED << b_pc, arena, adv >>
    /\ UNCHANGED << diceVars, rollerVars, gameVars, dieVars, typesVars >>

\* board_builder_t::add_jump(from, to)
AddJump(from, to) ==
    /\ b_pc = "building"
    /\ Len(jumps_) < MaxJumps
    /\ b_last' = << from, to >>
    /\ b_error' = AddJumpError(from, to)
    /\ jumps_' = IF AddJumpError(from, to) = ""
                    THEN Append(jumps_, << from, to >>)
                    ELSE jumps_
    /\ UNCHANGED << b_pc, arena, adv >>
    /\ UNCHANGED << diceVars, rollerVars, gameVars, dieVars, typesVars >>

\* board_builder_t::finalize()
Finalize ==
    /\ b_pc = "building"
    /\ jumps_' = SortJumps(jumps_)
    /\ b_pc' = "finalized"
    /\ b_last' = << >>
    /\ b_error' = ""
    /\ UNCHANGED << arena, adv >>
    /\ UNCHANGED << diceVars, rollerVars, gameVars, dieVars, typesVars >>

(***************************************************************************)
(* board_t: make_arena, is_jump_cell, advance, take_all_jumps.             *)
(***************************************************************************)

\* the jump's target stored in place of its length
SetJumpTarget(rc, jump) == [rc EXCEPT ![jump[1]] = jump[2]]

\* new(rc.data() + jump.first) cell_t{ jump.second - jump.first }
SetJump(rc, jump) == [rc EXCEPT ![jump[1]] = jump[2] - jump[1]]

\* the loop of make_arena over builder.jumps(), from index i on
RECURSIVE PlaceJumps(_, _, _)
PlaceJumps(rc, jumps, i) ==
    IF i > Len(jumps) THEN rc
    ELSE PlaceJumps(SetJump(rc, jumps[i]), jumps, i + 1)

\* board_t::make_arena: last_cell - current_cell + 1 cells with next = 0,
\* then the jumps
make_arena(jumps) == PlaceJumps([c \in 0 .. LastCell |-> 0], jumps, 1)

\* board_t::end(): arena.size()
end(a) == Cardinality(DOMAIN a)

\* board_t::is_jump_cell
is_jump_cell(a, c) == a[c] # 0

\* the result of a take_all_jumps call that never returns
Diverges == 0 - 1

\* take_all_jumps leaving the loop after its first jump
TakeOneJump(a, position, fuel) ==
    IF is_jump_cell(a, position) THEN position + a[position] ELSE position

\* the loop of take_all_jumps; after more iterations than the arena has
\* cells a cell has come up twice and the loop goes on for ever
RECURSIVE TakeJumps(_, _, _)
TakeJumps(a, position, fuel) ==
    IF ~is_jump_cell(a, position) THEN position
    ELSE IF fuel = 0 THEN Diverges
    ELSE TakeJumps(a, position + a[position], fuel - 1)

\* board_t::take_all_jumps
take_all_jumps(a, position) == TakeJumps(a, position, end(a))

\* the "reflect at end" variation
advance_reflect(a, position, count) ==
    IF position + count >= end(a)
        THEN take_all_jumps(a, (end(a) - 1) - (position + count - (end(a) - 1)))
        ELSE take_all_jumps(a, position + count)

\* board_t::advance
advance(a, position, count) ==
    IF position + count >= end(a)
        THEN position
        ELSE take_all_jumps(a, position + count)

\* board_t::board_t(builder.finalize())
BuildBoard ==
    /\ b_pc = "finalized"
    /\ arena' = make_arena(jumps_)
    /\ b_pc' = "built"
    /\ UNCHANGED << jumps_, b_last, b_error, adv >>
    /\ UNCHANGED << diceVars, rollerVars, gameVars, dieVars, typesVars >>

\* a call of board_t::advance(position, count) made before a game is set up;
\* a call that never returns leaves the program in take_all_jumps ("hung")
Advance(position, count) ==
    /\ b_pc = "built"
    /\ state_ = "none"
    /\ adv' = << position, count, advance(arena, position, count) >>
    /\ b_pc' = IF advance(arena, position, count) = Diverges THEN "hung" ELSE b_pc
    /\ UNCHANGED << jumps_, b_last, b_error, arena >>
    /\ UNCHANGED << diceVars, rollerVars, gameVars, dieVars, typesVars >>

(***************************************************************************)
(* game_t: constructor, reset, move, complete_turn.                        *)
(***************************************************************************)

\* snl::game_t game(board, 3)
n_players == 3

\* the finalized jump lists of the boards games are played on: no jumps, a
\* ladder onto a snake, and two jumps onto each other
GameJumps ==
    { << >>,
      << << 1, LastCell - 2 >>, << LastCell - 2, 3 >> >>,
      << << 1, 3 >>, << 3, 1 >> >> }

GameInit ==
    /\ players = << >>
    /\ current_player_ = 0
    /\ state_ = "none"
    /\ g_op = "none"
    /\ m_args = << >>
    /\ m_before = << >>
    /\ m_trace = << >>
    /\ g_ret = << >>

\* game_t::game_t(board, n_players)
NewGame ==
    /\ b_pc = "built"
    /\ state_ = "none"
    /\ jumps_ \in GameJumps
    /\ players' = [i \in 0 .. n_players - 1 |-> 0]
    /\ current_player_' = 0
    /\ state_' = "running"
    /\ g_op' = "new"
    /\ UNCHANGED << m_args, m_before, m_trace, g_ret >>
    /\ UNCHANGED << diceVars, rollerVars, boardVars, dieVars, typesVars >>

\* reset() that also puts current_player_ back to the first player
GameResetTurn ==
    /\ b_pc = "built"
    /\ state_ # "none"
    /\ state_' = "running"
    /\ players' = [i \in DOMAIN players |-> 0]
    /\ current_player_' = 0
    /\ g_op' = "reset"
    /\ m_args' = << >>
    /\ m_before' = << >>
    /\ m_trace' = << >>
    /\ g_ret' = << >>
    /\ UNCHANGED << diceVars, rollerVars, boardVars, dieVars, typesVars >>

\* reset() without the assignment to state_
GameResetPositions ==
    /\ b_pc = "built"
    /\ state_ # "none"
    /\ players' = [i \in DOMAIN players |-> 0]
    /\ g_op' = "reset"
    /\ m_args' = << >>
    /\ m_before' = << >>
    /\ m_trace' = << >>
    /\ g_ret' = << >>
    /\ UNCHANGED << state_, current_player_ >>
    /\ UNCHANGED << diceVars, rollerVars, boardVars, dieVars, typesVars >>

\* game_t::reset()
GameReset ==
    /\ b_pc = "built"
    /\ state_ # "none"
    /\ state_' = "running"
    /\ players' = [i \in DOMAIN players |-> 0]
    /\ g_op' = "reset"
    /\ m_args' = << >>
    /\ m_before' = << >>
    /\ m_trace' = << >>
    /\ g_ret' = << >>
    /\ UNCHANGED current_player_
    /\ UNCHANGED << diceVars, rollerVars, boardVars, dieVars, typesVars >>

\* players.size()
NumPlayers == Cardinality(DOMAIN players)

\* the vector with the element at index id erased
Erase(v, id) ==
    [i \in 0 .. Cardinality(DOMAIN v) - 2 |-> IF i < id THEN v[i] ELSE v[i + 1]]

\* std::iota(begin(new_players), end(new_players), player_id_t{})
Iota(n) == [i \in 0 .. n - 1 |-> i]

\* game_t::remove_player(player), with a valid id and a player remaining
RemovePlayer(player) ==
    /\ b_pc = "built"
    /\ state_ # "none"
    /\ player \in DOMAIN players
    /\ NumPlayers > 1
    /\ players' = Erase(players, player)
    /\ g_ret' = Erase(Iota(NumPlayers), player)
    /\ g_op' = "remove"
    /\ m_args' = << player >>
    /\ m_before' = [cp |-> current_player_, players |-> players, state |-> state_]
    /\ m_trace' = << >>
    /\ UNCHANGED << current_player_, state_ >>
    /\ UNCHANGED << diceVars, rollerVars, boardVars, dieVars, typesVars >>

\* exec_single_step applied to the offsets in turn, as std::none_of does:
\* it stops at the first step that returns finished. The result is the
\* player's position, the advance calls made, and "finished", "running"
\* (all offsets used) or "hung" (an advance call never returns)
RECURSIVE ExecSteps(_, _, _)
ExecSteps(position, moves, trace) ==
    IF moves = << >>
        THEN [pos |-> position, trace |-> trace, out |-> "running"]
    ELSE LET r == advance(arena, position, Head(moves)) IN
         IF r = Diverges
             THEN [pos |-> position,
                   trace |-> Append(trace, << position, Head(moves), r >>),
                   out |-> "hung"]
         ELSE IF r = end(arena) - 1
             THEN [pos |-> r,
                   trace |-> Append(trace, << position, Head(moves), r >>),
                   out |-> "finished"]
         ELSE ExecSteps(r, Tail(moves),
                        Append(trace, << position, Head(moves), r >>))

\* the tuples upto3_dice_t::roll() returns, which the game loop hands to
\* move: game.move(std::get<0>(roll), std::get<1>(roll), std::get<2>(roll))
RollTriples ==
    {Pad3(<< d >>) : d \in DiceValues \ {Sides}}
        \cup {Pad3(<< Sides, d >>) : d \in DiceValues \ {Sides}}
        \cup {Pad3(<< Sides, Sides, d >>) : d \in DiceValues \ {Sides}}
        \cup {AllMax(<< Sides, Sides, Sides >>)}

\* the arguments move is called with: the tuples of the game loop, and a
\* single offset followed by zeros as a direct caller passes it
MoveArgs == RollTriples \cup {<< d, 0, 0 >> : d \in DiceValues}

\* ++current_player_ with no wrap to player 0
CompleteTurnNoWrap(cp) == cp + 1

\* game_t::complete_turn()
complete_turn(cp) == IF cp + 1 = NumPlayers THEN 0 ELSE cp + 1

\* complete_turn() called whether or not a step finished the game
NoneOfIgnored(res) == res.out # "hung"

\* std::none_of(moves, finished): no step returned finished
NoneFinished(res) == res.out = "running"

\* every player put on the mover's new cell
SetPlayerAll(v, id, position) == [i \in DOMAIN v |-> position]

\* players[current_player_] = board.advance(players[current_player_], offset)
SetPlayer(v, id, position) == [v EXCEPT ![id] = position]

\* game_t::move(first, second, third). With current_player_ outside the
\* vector, players[current_player_] is read and written out of range: the
\* behaviour is undefined, and the run ends there with either status
Move(first, second, third) ==
    /\ b_pc = "built"
    /\ state_ # "none"
    /\ IF current_player_ \in DOMAIN players
          THEN LET res == ExecSteps(players[current_player_],
                                    << first, second, third >>, << >>)
               IN  /\ players' = SetPlayer(players, current_player_, res.pos)
                   /\ state_' = IF res.out = "finished" THEN "finished" ELSE state_
                   /\ current_player_' = IF NoneFinished(res)
                                            THEN complete_turn(current_player_)
                                            ELSE current_player_
                   /\ b_pc' = IF res.out = "hung" THEN "hung" ELSE b_pc
                   /\ m_trace' = res.trace
                   /\ adv' = res.trace[Len(res.trace)]
          ELSE /\ b_pc' = "undefined"
               /\ state_' \in {"running", "finished"}
               /\ m_trace' = << >>
               /\ UNCHANGED << players, current_player_, adv >>
    /\ g_op' = "move"
    /\ m_args' = << first, second, third >>
    /\ m_before' = [cp |-> current_player_, players |-> players, state |-> state_]
    /\ UNCHANGED g_ret
    /\ UNCHANGED << jumps_, b_last, b_error, arena >>
    /\ UNCHANGED << diceVars, rollerVars, dieVars, typesVars >>

(***************************************************************************)
(* dice_t::dice_t(sides) for any sides, and upto3_dice_t::roll() on it.    *)
(***************************************************************************)

\* the values dice_t is constructed with
DieSidesArgs == 0 - 1 .. Sides + 1

\* what std::uniform_int_distribution(1, sides) can return; with sides < 1
\* its precondition a <= b is broken and any value may come out
DieValues(sides) == IF sides >= 1 THEN 1 .. sides ELSE 0 - 1 .. 1

\* what the constructor does with std::uniform_int_distribution(1, sides):
\* with sides < 1 the behaviour is undefined, and a checked library aborts
DieOutcomes(sides) == IF sides >= 1 THEN {"made"} ELSE {"made", "aborted"}

DieInit ==
    /\ die_pc = "none"
    /\ die_sides = 0
    /\ die_draws = << >>
    /\ die_result = << >>
    /\ die_rolls = 0

\* dice_t::dice_t(sides), through upto3_dice_t::upto3_dice_t(sides)
DieConstruct(sides) ==
    /\ die_pc = "none"
    /\ die_pc' \in DieOutcomes(sides)
    /\ die_sides' = sides
    /\ UNCHANGED << die_draws, die_result, die_rolls >>
    /\ UNCHANGED << diceVars, rollerVars, boardVars, gameVars, typesVars >>

\* the draws upto3_dice_t::roll() makes when the dice gives d[1], d[2],
\* d[3]: up to and including the first that is not dice.sides()
DrawsMade(d, sides) ==
    IF d[1] # sides THEN << d[1] >>
    ELSE IF d[2] # sides THEN << d[1], d[2] >>
    ELSE d

\* upto3_dice_t::roll() as a function of the draws it made
Upto3Result(ds, sides) ==
    IF ds[Len(ds)] # sides THEN Pad3(ds) ELSE AllMax(ds)

\* a call of upto3_dice_t::roll() on the constructed dice
DieRoll ==
    /\ die_pc = "made"
    /\ die_rolls < MaxUpto3Calls
    /\ \E d \in [1 .. 3 -> DieValues(die_sides)] :
          /\ die_draws' = DrawsMade(d, die_sides)
          /\ die_result' = Upto3Result(DrawsMade(d, die_sides), die_sides)
    /\ die_rolls' = die_rolls + 1
    /\ UNCHANGED << die_pc, die_sides >>
    /\ UNCHANGED << diceVars, rollerVars, boardVars, gameVars, typesVars >>

(***************************************************************************)
(* The two earlier headers.  add_jump is the add_jump of part_001; the     *)
(* headers differ in finalize(), in the last lines of the arena's          *)
(* construction and in the jump loop of move().                            *)
(***************************************************************************)

\* snakes-and-ladders/include/types.h: finalize() sorts
PlainHeader == "include/types.h"

\* snakes-and-ladders/include/snakes-and-ladders/types.h: finalize() looks
\* for chains, then sorts
ChainCheckHeader == "include/snakes-and-ladders/types.h"

Headers == {PlainHeader, ChainCheckHeader}

TypesInit ==
    /\ th_header = "none"
    /\ th_jumps_ = << >>
    /\ th_pc = "none"
    /\ th_op = "none"
    /\ th_error = ""
    /\ th_arena = << >>
    /\ th_players = << >>
    /\ th_current_player_ = 0
    /\ th_state_ = "none"
    /\ th_args = << >>
    /\ th_before = << >>

\* snl::board_builder_t(side), in a program that includes header h
TypesBuilder(h) ==
    /\ th_pc = "none"
    /\ th_header' = h
    /\ th_pc' = "building"
    /\ th_op' = "builder"
    /\ UNCHANGED << th_jumps_, th_error, th_arena, th_players,
                    th_current_player_, th_state_, th_args, th_before >>
    /\ UNCHANGED << diceVars, rollerVars, boardVars, gameVars, dieVars >>

\* board_builder_t::add_jump(from, to)
TypesAddJump(from, to) ==
    /\ th_pc = "building"
    /\ Len(th_jumps_) < MaxJumps
    /\ th_op' = "add_jump"
    /\ th_error' = AddJumpError(from, to)
    /\ th_jumps_' = IF AddJumpError(from, to) = ""
                       THEN Append(th_jumps_, << from, to >>)
                       ELSE th_jumps_
    /\ UNCHANGED << th_header, th_pc, th_arena, th_players,
                    th_current_player_, th_state_, th_args, th_before >>
    /\ UNCHANGED << diceVars, rollerVars, boardVars, gameVars, dieVars >>

\* [](auto const& l, auto const& r) { return l.first == r.second || l.second == r.first; }
ChainComp(l, r) == l[1] = r[2] \/ l[2] = r[1]

\* std::includes(first1, last1, first2, last2, comp), with s1 from its
\* element i on and s2 from its element j on
RECURSIVE Includes(_, _, _, _)
Includes(s1, i, s2, j) ==
    IF j > Len(s2) THEN TRUE
    ELSE IF i > Len(s1) THEN FALSE
    ELSE IF ChainComp(s2[j], s1[i]) THEN FALSE
    ELSE IF ~ChainComp(s1[i], s2[j]) THEN Includes(s1, i + 1, s2, j + 1)
    ELSE Includes(s1, i + 1, s2, j)

\* two jumps of the list such that the source of one is the destination of
\* the other
HasChain(jumps) ==
    \E i, j \in 1 .. Len(jumps) : jumps[i][1] = jumps[j][2]

\* what std::includes(jumps_, jumps_, comp) can return.  On a list with a
\* chain the comparison holds both ways between two elements: it is no
\* strict weak ordering, and the behaviour of std::includes is undefined
IncludesOutcomes(jumps) ==
    IF HasChain(jumps) THEN BOOLEAN ELSE {Includes(jumps, 1, jumps, 1)}

\* board_builder_t::finalize().  An exception leaves jumps_ as it was.
TypesFinalize ==
    /\ th_pc = "building"
    /\ th_op' = "finalize"
    /\ \E found \in IF th_header = ChainCheckHeader
                       THEN IncludesOutcomes(th_jumps_) ELSE {FALSE} :
          IF found
              THEN /\ th_error' = "pre: chains of jumps found"
                   /\ UNCHANGED << th_jumps_, th_pc >>
              ELSE /\ th_error' = ""
                   /\ th_jumps_' = SortJumps(th_jumps_)
                   /\ th_pc' = "finalized"
    /\ UNCHANGED << th_header, th_arena, th_players, th_current_player_,
                    th_state_, th_args, th_before >>
    /\ UNCHANGED << diceVars, rollerVars, boardVars, gameVars, dieVars >>

Min(a, b) == IF a < b THEN a ELSE b

\* std::generate_n(std::back_inserter(rc), n, ...): n cells with next = 0,
\* none for n <= 0
Zeros(n) == [i \in 1 .. n |-> 0]

\* the loop over builder.jumps(): fill up to the jump's source, append the
\* jump's cell, current_cell = jump.first
RECURSIVE FillJumps(_, _, _)
FillJumps(rc, current_cell, jumps) ==
    IF jumps = << >> THEN [rc |-> rc, current_cell |-> current_cell]
    ELSE LET jump == Head(jumps)
             filled == rc \o Zeros(Min(LastCell - current_cell,
                                       jump[1] - current_cell))
         IN  FillJumps(Append(filled, jump[2] - jump[1]), jump[1], Tail(jumps))

\* "fill remaining cells": one cell per current_cell++ up to last_cell; the
\* header with the chain check goes on with "set last cell"
FillRemaining(h, st) ==
    st.rc \o Zeros(LastCell - st.current_cell)
          \o (IF h = ChainCheckHeader THEN << 0 >> ELSE << >>)

\* the pseudo constructor of board_t::arena
IncrementalArena(h, jumps) == FillRemaining(h, FillJumps(<< >>, 0, jumps))

\* arena[c]
Cell(a, c) == a[c + 1]

\* board_t::end_position(): arena.size() - 1
end_position(a) == Len(a) - 1

\* snl::board_t b(builder): the constructor takes any builder
TypesBuildBoard ==
    /\ th_pc \in {"building", "finalized"}
    /\ th_arena' = IncrementalArena(th_header, th_jumps_)
    /\ th_pc' = "built"
    /\ th_op' = "board"
    /\ th_error' = ""
    /\ UNCHANGED << th_header, th_jumps_, th_players, th_current_player_,
                    th_state_, th_args, th_before >>
    /\ UNCHANGED << diceVars, rollerVars, boardVars, gameVars, dieVars >>

\* board_t::advance(position, count) of the two headers
TypesAdvance(a, position, count) ==
    IF position + count > end_position(a)
        THEN position
        ELSE position + count + Cell(a, position + count)

\* while (board.is_jump_cell(players[current_player_])) ... advance(..., 0),
\* in include/types.h only; is_jump_cell reads arena[c] whatever c is
RECURSIVE TypesTakeJumps(_, _, _)
TypesTakeJumps(a, position, fuel) ==
    IF position \notin 0 .. end_position(a)
        THEN [pos |-> position, out |-> "undefined"]
    ELSE IF Cell(a, position) = 0 THEN [pos |-> position, out |-> "landed"]
    ELSE IF fuel = 0 THEN [pos |-> position, out |-> "hung"]
    ELSE TypesTakeJumps(a, TypesAdvance(a, position, 0), fuel - 1)

\* exec_single_step(offset): the player's new position, and the
\* game_state_t returned ("hung", "undefined": the step does not return)
exec_single_step(h, a, position, offset) ==
    LET r == IF h = PlainHeader
                THEN TypesTakeJumps(a, TypesAdvance(a, position, offset), Len(a))
                ELSE [pos |-> TypesAdvance(a, position, offset), out |-> "landed"]
    IN  IF r.out # "landed" THEN r
        ELSE IF r.pos = end_position(a) THEN [pos |-> r.pos, out |-> "finished"]
        ELSE [pos |-> r.pos, out |-> "running"]

\* enum class game_state_t : bool { finished = true, running = false }
AsBool(state) == state = "finished"

\* std::all_of(begin(moves), end(moves), exec_single_step): the steps are
\* made up to the first whose result converts to false.  st is state_, which
\* a finishing step sets; all tells whether every step gave true
RECURSIVE AllOfSteps(_, _, _, _, _)
AllOfSteps(h, a, position, moves, st) ==
    IF moves = << >> THEN [pos |-> position, state |-> st, out |-> "all"]
    ELSE LET r == exec_single_step(h, a, position, Head(moves)) IN
         IF r.out \in {"hung", "undefined"}
             THEN [pos |-> r.pos, state |-> st, out |-> r.out]
         ELSE IF AsBool(r.out)
             THEN AllOfSteps(h, a, r.pos, Tail(moves), "finished")
         ELSE [pos |-> r.pos, state |-> st, out |-> "some"]

\* the boards the games of the two headers are played on: no jumps, a
\* ladder and a snake added in the order of their sources, and a ladder
\* whose target is the cell the arena holds the next jump in
TypesGameJumps ==
    { << >>,
      << << 1, 3 >>, << LastCell - 2, 2 >> >>,
      << << 1, 3 >>, << 2, 0 >> >> }

\* snl::game_t g(b, 3)
TypesNewGame ==
    /\ th_pc = "built"
    /\ th_state_ = "none"
    /\ th_jumps_ \in TypesGameJumps
    /\ th_players' = [i \in 0 .. n_players - 1 |-> 0]
    /\ th_current_player_' = 0
    /\ th_state_' = "running"
    /\ th_op' = "game"
    /\ UNCHANGED << th_header, th_jumps_, th_pc, th_error, th_arena, th_args,
                    th_before >>
    /\ UNCHANGED << diceVars, rollerVars, boardVars, gameVars, dieVars >>

\* game_t::reset()
TypesReset ==
    /\ th_pc = "built"
    /\ th_state_ # "none"
    /\ th_state_' = "running"
    /\ th_players' = [i \in DOMAIN th_players |-> 0]
    /\ th_op' = "reset"
    /\ th_args' = << >>
    /\ th_before' = << >>
    /\ UNCHANGED << th_header, th_jumps_, th_pc, th_error, th_arena,
                    th_current_player_ >>
    /\ UNCHANGED << diceVars, rollerVars, boardVars, gameVars, dieVars >>

\* game_t::complete_turn()
types_complete_turn(cp) ==
    IF cp + 1 = Cardinality(DOMAIN th_players) THEN 0 ELSE cp + 1

\* game_t::move(first, second, third) of the two headers
TypesMove(first, second, third) ==
    /\ th_pc = "built"
    /\ th_state_ # "none"
    /\ LET res == AllOfSteps(th_header, th_arena,
                             th_players[th_current_player_],
                             << first, second, third >>, th_state_)
       IN  /\ th_players' = [th_players EXCEPT ![th_current_player_] = res.pos]
           /\ th_state_' = res.state
           /\ th_current_player_' = IF res.out = "all"
                                       THEN types_complete_turn(th_current_player_)
                                       ELSE th_current_player_
           /\ th_pc' = IF res.out \in {"hung", "undefined"} THEN res.out ELSE th_pc
    /\ th_op' = "move"
    /\ th_args' = << first, second, third >>
    /\ th_before' = [cp |-> th_current_player_, players |-> th_players,
                     state |-> th_state_]
    /\ UNCHANGED << th_header, th_jumps_, th_error, th_arena >>
    /\ UNCHANGED << diceVars, rollerVars, boardVars, gameVars, dieVars >>

(***************************************************************************)
(* The state after construction of every object.                           *)
(***************************************************************************)
Init ==
    /\ DiceInit
    /\ RollerInit
    /\ BoardInit
    /\ GameInit
    /\ DieInit
    /\ TypesInit

(***************************************************************************)
(* Specifications.                                                         *)
(*   Spec       the benchmark driver: one consumer thread, fills succeed   *)
(*   FairSpec   Spec with the scheduler running every thread that can run  *)
(*   SpecFault  one consumer, and a fill may end by an exception           *)
(*   SpecMC     two threads call roll() with no external synchronisation   *)
(***************************************************************************)
Next == FillTask \/ \E t \in SingleConsumer : Consumer(t)

Spec == Init /\ [][Next]_vars

FairSpec == Spec /\ WF_vars(FillTask) /\ \A t \in SingleConsumer : WF_vars(Consumer(t))

NextFault == FillTask \/ FillFail \/ \E t \in SingleConsumer : Consumer(t)

SpecFault == Init /\ [][NextFault]_vars

NextMC == FillTask \/ \E t \in Consumers : Consumer(t)

SpecMC == Init /\ [][NextMC]_vars

\* the folding dice alone, over a dice whose draws are arbitrary
NextRoller == Upto3Call \/ Upto3Draw

SpecRoller == Init /\ [][NextRoller]_vars

\* a dice constructed with any number of sides and rolled
NextDie ==
    \/ \E sides \in DieSidesArgs : DieConstruct(sides)
    \/ DieRoll

SpecDie == Init /\ [][NextDie]_vars

\* a builder, the board made from it, and advance calls on that board
NextBoard ==
    \/ \E from, to \in JumpEnds : AddJump(from, to)
    \/ Finalize
    \/ BuildBoard
    \/ \E position \in Cells, count \in 0 .. Sides : Advance(position, count)

SpecBoard == Init /\ [][NextBoard]_vars

\* a board and the games played on it
NextGame ==
    \/ NextBoard
    \/ NewGame
    \/ GameReset
    \/ \E roll \in MoveArgs : Move(roll[1], roll[2], roll[3])

SpecGame == Init /\ [][NextGame]_vars

\* the same with players taken out of the game
NextGameRemove ==
    \/ NextGame
    \/ \E player \in 0 .. n_players - 1 : RemovePlayer(player)

SpecGameRemove == Init /\ [][NextGameRemove]_vars

\* the builder, the board and the game of the two earlier headers
NextTypes ==
    \/ \E h \in Headers : TypesBuilder(h)
    \/ \E from, to \in JumpEnds : TypesAddJump(from, to)
    \/ TypesFinalize
    \/ TypesBuildBoard
    \/ TypesNewGame
    \/ TypesReset
    \/ \E roll \in MoveArgs : TypesMove(roll[1], roll[2], roll[3])

SpecTypes == Init /\ [][NextTypes]_vars

(***************************************************************************)
(* Properties of the buffered dice.                                        *)
(***************************************************************************)

\* C1: with one consumer, under every interleaving with the fill task, each
\* value roll() returns is the oldest value d.roll() produced that was not
\* yet returned: the k-th value returned is the k-th value produced, none
\* reordered, dropped or returned twice, also across swaps.
C1_DeliveredInOrder ==
    /\ delivered > 0 => ret = expected
    /\ Len(pending) = produced - delivered

\* more roll() calls than two buffers hold have returned, over three swaps
C1_Witness ==
    /\ delivered > buffer_length
    /\ swaps >= 3
    /\ ret = expected

\* C2: the array a running fill writes is never the array `read` owns, the
\* one roll() indexes; `read` and `write` never own the same array.
C2_FillNeverWritesRead ==
    /\ read # write
    /\ task.status = "running" => task.target # read
    /\ task.status = "running" => task.target = write

\* a fill is writing while the consumer, after a swap, is about to read
C2_Witness ==
    /\ task.status = "running"
    /\ task.pos > 0
    /\ swaps >= 2
    /\ pc[1] = "deref"

\* C3: after construction read_index is buffer_length / 2, so the first
\* roll() goes through swap_buffers(), awaits the fill the constructor
\* launched and swaps before it returns; no roll() returns a slot that no
\* completed fill wrote.
C3_FirstRollSwaps ==
    /\ TotalRolls = 0 => read_index = buffer_length \div 2
    /\ (rolls[1] = 1 /\ pc[1] # "idle") => callIdx[1] = buffer_length \div 2
    /\ delivered > 0 => (awaits >= 1 /\ swaps >= 1)
    /\ ~unwritten

\* the first roll() has returned a value
C3_Witness ==
    /\ rolls[1] = 1
    /\ delivered = 1
    /\ pc[1] = "idle"
    /\ swaps = 1
    /\ ret # Uninit

\* thread t takes a step
Steps(t) == pc'[t] # pc[t]

\* the roll() call that thread t is in, or is entering, found read_index
\* below buffer_length / 2
InFastCall(t) ==
    IF pc[t] = "idle" THEN read_index < buffer_length \div 2
                      ELSE callIdx[t] < buffer_length \div 2

\* the roll() call that thread t is in, or is entering, found the buffer
\* used up
InExhaustedCall(t) ==
    IF pc[t] = "idle" THEN read_index = buffer_length \div 2
                      ELSE callIdx[t] = buffer_length \div 2

\* C4: a roll() called with read_index < buffer_length / 2 returns the
\* element of `read` at that index and adds one to read_index; none of its
\* steps can block, takes the mutex, exchanges read and write, touches an
\* array, or launches or awaits a fill.
C4_FastPathFrame ==
    [][\A t \in SingleConsumer : (Steps(t) /\ InFastCall(t)) =>
          /\ pc[t] \in {"idle", "fetch", "deref"}
          /\ pc'[t] \in {"fetch", "deref", "idle"}
          /\ UNCHANGED << read, write, buf, swap_mutex, writer, task,
                          launches, awaits, swaps >>
          /\ pc[t] = "idle" => read_index' = read_index
          /\ pc[t] = "fetch" => /\ read_index' = callIdx[t] + 1
                                /\ idx'[t] = callIdx[t]
          /\ pc[t] = "deref" => /\ ret' = buf[read][callIdx[t]]
                                /\ read_index' = callIdx[t] + 1
                                /\ delivered' = delivered + 1
                                /\ pc'[t] = "idle"]_vars

\* a roll() that found read_index below buffer_length / 2 has returned
C4_Witness ==
    /\ pc[1] = "idle"
    /\ delivered >= 2
    /\ callIdx[1] < buffer_length \div 2
    /\ read_index = callIdx[1] + 1
    /\ swap_mutex = Free

\* C5: a roll() called with the buffer used up does, in this order: await
\* the outstanding fill; exchange read and write (the arrays are exchanged,
\* no element is copied) and set read_index to 0; launch a new fill; return
\* element 0 of the new `read`, leaving read_index at 1.  read and write
\* change in no other step.
C5_ExhaustedOrder ==
    [][/\ (read' # read \/ write' # write \/ swaps' # swaps) =>
             /\ read' = write
             /\ write' = read
             /\ buf' = buf
             /\ swaps' = swaps + 1
             /\ writer = "invalid"
             /\ task.status = "done"
             /\ awaits = swaps + 1
             /\ launches = swaps + 1
             /\ read_index = buffer_length \div 2
             /\ \E t \in SingleConsumer : Steps(t) /\ InExhaustedCall(t)
       /\ read_index' < read_index =>
             /\ read_index' = 0
             /\ swaps = awaits
             /\ launches = swaps
       /\ launches' # launches =>
             /\ launches' = launches + 1
             /\ launches = swaps
             /\ launches = awaits
             /\ read_index = 0
             /\ task' = NewTask
             /\ writer' = "valid"
       /\ \A t \in SingleConsumer : (Steps(t) /\ InExhaustedCall(t)) =>
             /\ pc[t] = "idle" => pc'[t] = "lock"
             /\ pc'[t] = "idle" =>
                   /\ ret' = buf[read][0]
                   /\ read_index' = 1
                   /\ idx[t] = 0
                   /\ launches = swaps + 1
                   /\ launches = awaits + 1]_vars

\* a roll() that found the buffer used up has returned, after a second swap
C5_Witness ==
    /\ pc[1] = "idle"
    /\ callIdx[1] = buffer_length \div 2
    /\ read_index = 1
    /\ swaps >= 2
    /\ delivered > buffer_length \div 2

\* C6 as claimed: when the new fill is launched the mutex is not held.
C6_LaunchOutsideLock ==
    [][launches' # launches => swap_mutex = Free]_vars

\* C6: the new fill is launched inside the critical section: the thread
\* that calls fill_buffer() in swap_buffers() owns swap_mutex when the fill
\* is launched and still owns it afterwards, until swap_buffers() returns.
C6_LaunchUnderLock ==
    [][\A t \in SingleConsumer :
          /\ (Steps(t) /\ launches' # launches) =>
                (swap_mutex = t /\ swap_mutex' = t)
          /\ (swap_mutex = t /\ swap_mutex' # t) =>
                (pc[t] = "unlock" /\ launches = swaps + 1)]_vars

\* the fill has been launched and its launcher still owns the mutex
C6_Witness ==
    /\ pc[1] = "unlock"
    /\ swap_mutex = 1
    /\ task.status = "launched"
    /\ launches >= 2

\* number of fills launched and not yet awaited
Outstanding == launches - awaits

\* thread t is in swap_buffers() after writer.get() and before fill_buffer()
BetweenGetAndFill(t) == pc[t] \in {"swap", "reset", "fill"}

\* C7 as claimed: in every state exactly one launched fill is not awaited.
C7_ExactlyOneOutstanding == Outstanding = 1

\* C7: at most one launched fill is not awaited; there is exactly one
\* except while roll() is in swap_buffers() between writer.get() and
\* fill_buffer(), where there is none.
C7_AtMostOneOutstanding ==
    /\ Outstanding \in {0, 1}
    /\ Outstanding = 0 <=> \E t \in SingleConsumer : BetweenGetAndFill(t)
    /\ Outstanding = 1 <=> writer = "valid"

\* inside the second swap, the fill awaited and the next not yet launched
C7_Witness ==
    /\ pc[1] = "reset"
    /\ Outstanding = 0
    /\ swaps >= 2

\* thread t is inside roll() and none of its steps can be taken
Blocked(t) == pc[t] \notin {"idle", "dead"} /\ ~ENABLED Consumer(t)

\* every roll() call the driver makes has returned
AllReturned ==
    /\ delivered = MaxRolls
    /\ \A t \in SingleConsumer : pc[t] = "idle"

\* C8: roll() blocks only at writer.get() in a call that found the buffer
\* used up, and only while the fill launched before has not ended; with the
\* fill task and the consumer scheduled fairly every roll() call returns a
\* value, and the system stops only when the driver has no call left.
C8_RollReturns ==
    /\ [](\A t \in SingleConsumer : Blocked(t) =>
             /\ pc[t] = "get"
             /\ callIdx[t] = buffer_length \div 2
             /\ task.status \in {"launched", "running"})
    /\ [](~ENABLED Next => AllReturned)
    /\ \A k \in 1 .. MaxRolls :
          (rolls[1] = k) ~> (delivered = k /\ pc[1] = "idle")

\* the consumer waits at writer.get() for a fill that is still writing
C8_Witness ==
    /\ pc[1] = "get"
    /\ task.status = "running"
    /\ swaps >= 1
    /\ Blocked(1)

\* C9: when a fill fails, the roll() that awaits it (the first to find the
\* buffer used up afterwards) ends by the exception; it does not exchange
\* read and write, does not reset read_index and returns no value, and no
\* value of the partly filled array is ever returned.
C9_FailurePropagates ==
    /\ [](/\ ~unwritten
          /\ \A t \in SingleConsumer : pc[t] = "dead" =>
                /\ threw[t]
                /\ task.status = "failed"
                /\ callIdx[t] = buffer_length \div 2
                /\ read_index = buffer_length \div 2
                /\ swap_mutex = Free
                /\ task.target = write
                /\ swaps = awaits - 1
                /\ delivered = rolls[t] - 1)
    /\ [][/\ task.status = "failed" =>
                /\ UNCHANGED << read, write, buf, swaps, launches >>
                /\ read_index' >= read_index
          /\ \A t \in SingleConsumer :
                (Steps(t) /\ pc[t] = "get" /\ task.status = "failed") =>
                   (pc'[t] = "dead" /\ threw'[t] /\ delivered' = delivered)]_vars

\* a fill failed after writing part of its array, after a first swap, and
\* the roll() that awaited it has ended by the exception
C9_Witness ==
    /\ pc[1] = "dead"
    /\ threw[1]
    /\ task.status = "failed"
    /\ task.pos > 0
    /\ swaps >= 1

\* the threads inside the critical section of swap_buffers()
InSwap == {t \in Consumers : pc[t] \in {"recheck", "get", "swap", "reset", "fill", "unlock"}}

\* C10: the swap is mutually exclusive with itself: at most one thread is
\* inside the critical section of swap_buffers(), also when two threads
\* call roll() concurrently and both find the buffer used up; each time the
\* buffer is used up read and write are exchanged at most once and the fill
\* is awaited at most once (the second caller's re-check returns).
C10_SwapMutex ==
    /\ Cardinality(InSwap) <= 1
    /\ \A t \in InSwap : swap_mutex = t
    /\ InSwap = {} => swap_mutex = Free
    /\ swaps <= exhausts
    /\ awaits <= exhausts
    /\ awaits <= launches
    /\ \A t \in Consumers : ~threw[t]

\* both threads called roll() on the fresh object and found the buffer used
\* up; both are past swap_buffers() and one exchange was made
C10_Witness ==
    /\ rolls[1] = 1
    /\ rolls[2] = 1
    /\ callIdx[1] = buffer_length \div 2
    /\ callIdx[2] = buffer_length \div 2
    /\ pc[1] \in {"fetch", "deref"}
    /\ pc[2] \in {"fetch", "deref"}
    /\ swaps = 1
    /\ awaits = 1

(***************************************************************************)
(* The folding dice: upto3_dice_t::roll().                                 *)
(***************************************************************************)

\* a roll() call has returned
Upto3Returned == u_pc = "idle" /\ u_calls > 0

\* C11: roll() returns (0,0,0) exactly when it drew `sides` three times;
\* otherwise it returns its draws up to and including the first one that is
\* not `sides`, followed only by zeros, and it has made exactly that many
\* draws (three in the all-maxima case).
C11_Upto3Roll ==
    Upto3Returned =>
        LET n == u_drawn - u_base IN
        /\ n = Len(u_draws)
        /\ n \in 1 .. 3
        /\ \A i \in 1 .. n - 1 : u_draws[i] = Sides
        /\ (u_result = << 0, 0, 0 >>) <=>
               (n = 3 /\ \A i \in 1 .. 3 : u_draws[i] = Sides)
        /\ u_result # << 0, 0, 0 >> =>
               /\ u_draws[n] # Sides
               /\ \A i \in 1 .. 3 :
                     u_result[i] = IF i <= n THEN u_draws[i] ELSE 0

\* a call that stopped at its second draw
C11_Witness ==
    /\ Upto3Returned
    /\ u_draws = << Sides, 1 >>
    /\ u_result = << Sides, 1, 0 >>
    /\ u_drawn - u_base = 2

\* the triple t holds exactly n real rolls: n - 1 maxima, one roll that is
\* not the maximum, then zeros
RealRolls(t, n) ==
    /\ \A i \in 1 .. n - 1 : t[i] = Sides
    /\ t[n] \in DiceValues \ {Sides}
    /\ \A i \in n + 1 .. 3 : t[i] = 0

\* C12: every triple roll() returns is (0,0,0) or holds one, two or three
\* real rolls, the last of them not the maximum and the earlier ones all
\* the maximum, padded with zeros to three entries.
C12_TripleShape ==
    Upto3Returned =>
        \/ u_result = << 0, 0, 0 >>
        \/ \E n \in 1 .. 3 : RealRolls(u_result, n)

\* a returned triple with three real rolls and no padding
C12_Witness ==
    /\ Upto3Returned
    /\ u_result = << Sides, Sides, 1 >>

\* C12 as stated: a triple that is not (0,0,0) holds exactly one or two
\* real rolls.
C12_OneOrTwoRealRolls ==
    Upto3Returned =>
        \/ u_result = << 0, 0, 0 >>
        \/ \E n \in 1 .. 2 : RealRolls(u_result, n)

(***************************************************************************)
(* The board: board_builder_t and board_t.                                 *)
(***************************************************************************)

\* a board_t has been constructed from the finalized builder
BoardBuilt == b_pc = "built"

\* the cells that are the source of a registered jump
Sources == {jumps_[i][1] : i \in 1 .. Len(jumps_)}

\* no two registered jumps start at the same cell
DistinctSources ==
    \A i, j \in 1 .. Len(jumps_) : i # j => jumps_[i][1] # jumps_[j][1]

ClosedJumpSets(a) ==
    {S \in SUBSET {c \in DOMAIN a : a[c] # 0} :
        S # {} /\ \A c \in S : c + a[c] \in S}

\* the jumps of the arena do not chain back on themselves
Acyclic(a) == ClosedJumpSets(a) = {}

\* C18 as stated: whatever add_jump and finalize() accept, the board built
\* from it has no cycle of jumps and take_all_jumps returns from every cell.
C18_NoJumpCycle ==
    BoardBuilt =>
        /\ Acyclic(arena)
        /\ \A c \in DOMAIN arena : take_all_jumps(arena, c) # Diverges

\* the four rules of add_jump the claim C19 lists, in their order: the
\* rule (from, to) violates, "" if none
ViolatedRule(from, to) ==
    IF from < 0 \/ to < 0 THEN "pre: source or destination less than start"
    ELSE IF from >= Side * Side \/ to >= Side * Side
        THEN "pre: source or destination greater than end"
    ELSE IF Abs(to - from) < 2 THEN "pre: jump length less than two"
    ELSE IF to > from /\ from = 0 THEN "pre: ladder at start"
    ELSE ""

\* the last add_jump call appended its jump
Appended ==
    /\ b_last # << >>
    /\ b_error = ""
    /\ jumps_ # << >>
    /\ jumps_[Len(jumps_)] = b_last

\* C19 as stated: add_jump(from, to) appends the jump exactly when both
\* cells are in 0 .. N*N - 1, the jump is at least two cells long and it is
\* not a ladder at cell 0; otherwise the error names the violated rule.
C19_AddJumpRules ==
    b_last # << >> =>
        /\ Appended <=> ViolatedRule(b_last[1], b_last[2]) = ""
        /\ ~Appended => b_error = ViolatedRule(b_last[1], b_last[2])

\* C20 as stated: a snake is rejected for its source only when it starts at
\* the final cell N*N = end() - 1; every snake with both ends in range, at
\* least two cells long and not starting at the final cell is accepted.
C20_SnakeOnlyAtFinalCell ==
    b_last # << >> =>
        LET from == b_last[1]
            to == b_last[2]
        IN  /\ b_error = "pre: snake at end" => from = Side * Side
            /\ ( /\ to < from
                 /\ from \in 0 .. Side * Side - 1
                 /\ to \in 0 .. Side * Side - 1
                 /\ from - to >= 2
                 /\ from # Side * Side ) => Appended

\* C16: on a board whose jumps do not chain back on themselves,
\* take_all_jumps returns from every start cell, with a cell that is not a
\* jump cell or is the final cell; so does every advance call that got as
\* far as take_all_jumps.
C16_JumpsResolve ==
    (BoardBuilt /\ Acyclic(arena)) =>
        /\ \A c \in DOMAIN arena :
              LET r == take_all_jumps(arena, c) IN
              /\ r \in DOMAIN arena
              /\ ~is_jump_cell(arena, r) \/ r = Side * Side
        /\ (adv # << >> /\ adv[1] + adv[2] < end(arena)) =>
              /\ adv[3] \in DOMAIN arena
              /\ ~is_jump_cell(arena, adv[3]) \/ adv[3] = Side * Side

\* advance(0, 1) went up a ladder and then down a snake
C16_Witness ==
    /\ BoardBuilt
    /\ Acyclic(arena)
    /\ jumps_ = << << 1, LastCell - 2 >>, << LastCell - 2, 3 >> >>
    /\ adv = << 0, 1, 3 >>

(***************************************************************************)
(* The game: game_t::move.                                                 *)
(***************************************************************************)

\* the last call was a move on a running game, and it has returned
MoveReturned == g_op = "move" /\ b_pc = "built" /\ m_before.state = "running"

\* the player who made the last move
Mover == m_before.cp

\* the ring successor of player cp
RingSuccessor(cp) == (cp + 1) % NumPlayers

\* step i of the last move brought the player onto the final cell N*N
ReachesFinal(i) == m_trace[i][3] = Side * Side

\* the last move left every player but the mover where they were
OthersUnmoved ==
    \A i \in DOMAIN players : i # Mover => players[i] = m_before.players[i]

\* the steps of the last move used the offsets of the call in their order,
\* each from where the step before had put the player
StepsInOrder ==
    \A i \in 1 .. Len(m_trace) :
        /\ m_trace[i][2] = m_args[i]
        /\ m_trace[i][1] = IF i = 1 THEN m_before.players[Mover]
                                    ELSE m_trace[i - 1][3]

\* C13: when a step of move(a, b, c) brings the current player onto the
\* final cell the state becomes finished, the offsets after that step are
\* not applied, and current_player is left as it was.
C13_WinStopsMove ==
    MoveReturned =>
        \A i \in 1 .. Len(m_trace) :
            ReachesFinal(i) =>
                /\ state_ = "finished"
                /\ Len(m_trace) = i
                /\ StepsInOrder
                /\ players[Mover] = Side * Side
                /\ OthersUnmoved
                /\ current_player_ = Mover

\* a win on the first offset of a triple whose second offset is not zero
C13_Witness ==
    /\ MoveReturned
    /\ state_ = "finished"
    /\ Len(m_trace) = 1
    /\ ReachesFinal(1)
    /\ m_args[2] # 0
    /\ current_player_ = Mover

\* C14: a move(a, b, c) in which no offset brings the current player onto
\* the final cell applies all three offsets in order through advance,
\* leaves the state running and makes current_player its ring successor,
\* player 0 after the last player.
C14_TurnPasses ==
    (MoveReturned /\ \A i \in 1 .. Len(m_trace) : ~ReachesFinal(i)) =>
        /\ Len(m_trace) = 3
        /\ StepsInOrder
        /\ \A i \in 1 .. 3 :
              m_trace[i][3] = advance(arena, m_trace[i][1], m_args[i])
        /\ players[Mover] = m_trace[3][3]
        /\ OthersUnmoved
        /\ state_ = "running"
        /\ current_player_ = RingSuccessor(Mover)

\* the last player moved and the turn went back to player 0
C14_Witness ==
    /\ MoveReturned
    /\ state_ = "running"
    /\ Mover = n_players - 1
    /\ current_player_ = 0
    /\ Len(m_trace) = 3
    /\ players[Mover] # m_before.players[Mover]

\* the cells a walk along next from the cells of S comes to
RECURSIVE Reached(_, _)
Reached(a, S) ==
    LET T == S \cup {c + a[c] : c \in {x \in S : a[x] # 0}}
    IN  IF T = S THEN S ELSE Reached(a, T)

\* what C15 says advance(call[1], call[2]) returns, for the result call[3]
AdvanceResult(call) ==
    IF call[1] + call[2] > Side * Side
        THEN call[3] = call[1]
        ELSE /\ call[3] \in Reached(arena, {call[1] + call[2]})
             /\ arena[call[3]] = 0

\* step i of the last move is an offset that goes beyond the final cell
Overshoots(i) == m_trace[i][1] + m_trace[i][2] > Side * Side

\* C15: advance(p, count) returns p when p + count is beyond the final cell
\* N*N, and otherwise the cell reached from p + count along next where
\* next = 0. In a move an offset that overshoots causes no movement and
\* does not end the game; the game stays running and the turn passes
\* unless another offset of the same triple reaches the final cell.
C15_AdvanceOvershoot ==
    /\ (adv # << >> /\ adv[3] # Diverges) => AdvanceResult(adv)
    /\ MoveReturned =>
          /\ \A i \in 1 .. Len(m_trace) :
                /\ AdvanceResult(m_trace[i])
                /\ Overshoots(i) => /\ m_trace[i][3] = m_trace[i][1]
                                    /\ ~ReachesFinal(i)
          /\ ( /\ \E i \in 1 .. Len(m_trace) : Overshoots(i)
               /\ \A i \in 1 .. Len(m_trace) : ~ReachesFinal(i) ) =>
                    /\ state_ = "running"
                    /\ current_player_ = RingSuccessor(Mover)

\* a move whose only offset overshoots: the player stays, the turn passes
C15_Witness ==
    /\ MoveReturned
    /\ Overshoots(1)
    /\ players[Mover] = m_before.players[Mover]
    /\ state_ = "running"
    /\ current_player_ = RingSuccessor(Mover)

\* C15 as stated: whenever an offset of a move overshoots, the game stays
\* running and the turn passes.
C15_OvershootKeepsRunning ==
    /\ (adv # << >> /\ adv[3] # Diverges) => AdvanceResult(adv)
    /\ MoveReturned =>
          \A i \in 1 .. Len(m_trace) :
              /\ AdvanceResult(m_trace[i])
              /\ Overshoots(i) => /\ m_trace[i][3] = m_trace[i][1]
                                  /\ state_ = "running"
                                  /\ current_player_ = RingSuccessor(Mover)

(***************************************************************************)
(* The builder after a rejected jump, and jumps that share a source.       *)
(***************************************************************************)

\* the last add_jump call threw
Rejected == b_last # << >> /\ b_error # ""

\* C21: an add_jump call that is rejected leaves the jump list as it was
\* (the side length is fixed at construction), and the builder can still be
\* used: finalize() and, while the list has room, a valid add_jump go
\* ahead from the unchanged list.
C21_RejectedJumpNotAdded ==
    /\ [][(b_pc = "building" /\ b_pc' = "building" /\ b_error' # "")
            => (jumps_' = jumps_ /\ arena' = arena)]_vars
    /\ [](Rejected =>
            /\ b_pc = "building"
            /\ \A i \in 1 .. Len(jumps_) :
                  AddJumpError(jumps_[i][1], jumps_[i][2]) = ""
            /\ ENABLED Finalize
            /\ Len(jumps_) < MaxJumps => ENABLED AddJump(1, 3))

\* a jump was rejected after another had been accepted, which is still the
\* whole list
C21_Witness ==
    /\ Rejected
    /\ jumps_ = << << 1, 3 >> >>
    /\ b_last # << 1, 3 >>
    /\ ENABLED Finalize

\* C22 as stated: the jump list handed to make_arena never holds two jumps
\* with the same source.
C22_NoSharedSource ==
    b_pc \in {"finalized", "built"} => DistinctSources

(***************************************************************************)
(* The game: reset, the finished state, the players' positions.            *)
(***************************************************************************)

\* a game_t exists and no call on it is stuck or undefined
GameLive == state_ # "none" /\ b_pc = "built"

\* every player is at the start cell
AllAtStart == \A i \in DOMAIN players : players[i] = 0

\* C23: reset(), in whatever state it is called, puts every player on cell
\* 0 and the state to running, and leaves current_player and the number of
\* players as they were.
C23_ResetFrame ==
    [][g_op' = "reset" =>
          /\ \A i \in DOMAIN players' : players'[i] = 0
          /\ state_' = "running"
          /\ current_player_' = current_player_
          /\ DOMAIN players' = DOMAIN players]_vars

\* a reset made while it was the last player's turn
C23_Witness ==
    /\ g_op = "reset"
    /\ AllAtStart
    /\ state_ = "running"
    /\ NumPlayers = n_players
    /\ current_player_ = n_players - 1

\* C24: after reset() the positions and the status are those of a freshly
\* constructed game with the same board and player count; the
\* current-player index is not put back to 0 but keeps the value it had.
C24_ResetKeepsTurn ==
    /\ [](g_op = "reset" =>
            /\ players = [i \in 0 .. n_players - 1 |-> 0]
            /\ state_ = "running"
            /\ current_player_ \in DOMAIN players)
    /\ [][g_op' = "reset" => current_player_' = current_player_]_vars

\* a game after reset() that is not in the state of a fresh game
C24_Witness ==
    /\ g_op = "reset"
    /\ AllAtStart
    /\ state_ = "running"
    /\ current_player_ # 0

\* C24 as stated: after reset() the positions, the current-player index and
\* the status are those of a freshly constructed game.
C24_ResetIsInitial ==
    g_op = "reset" =>
        /\ players = [i \in 0 .. n_players - 1 |-> 0]
        /\ current_player_ = 0
        /\ state_ = "running"

C26_FinishedIffWinner ==
    GameLive =>
        /\ state_ = "finished" <=> players[current_player_] = Side * Side
        /\ \A i \in DOMAIN players :
              i # current_player_ => players[i] # Side * Side

\* a finished game won by a player other than the first
C26_Witness ==
    /\ GameLive
    /\ state_ = "finished"
    /\ current_player_ # 0
    /\ players[current_player_] = Side * Side

\* C27: on a board whose jumps do not chain back on themselves every
\* player's position is a cell 0 .. N*N that is not a jump cell, so
\* advance(p, 0) = p there, and a step with offset zero does not move the
\* player.
C27_PositionsResolved ==
    (GameLive /\ Acyclic(arena)) =>
        /\ \A i \in DOMAIN players :
              /\ players[i] \in 0 .. Side * Side
              /\ ~is_jump_cell(arena, players[i])
              /\ advance(arena, players[i], 0) = players[i]
        /\ g_op = "move" =>
              \A k \in 1 .. Len(m_trace) :
                  m_trace[k][2] = 0 => m_trace[k][3] = m_trace[k][1]

\* a player went up the ladder and down the snake, and the padding zeros
\* left the player there
C27_Witness ==
    /\ GameLive
    /\ Acyclic(arena)
    /\ g_op = "move"
    /\ m_trace = << << 0, 1, 3 >>, << 3, 0, 3 >>, << 3, 0, 3 >> >>
    /\ players[m_before.cp] = 3

(***************************************************************************)
(* The game: remove_player.                                                *)
(***************************************************************************)

\* the last call was remove_player
PlayerRemoved == g_op = "remove" /\ b_pc = "built"

\* the index a player with old index i has once player id is removed
NewIndex(i, id) == IF i < id THEN i ELSE i - 1

\* C28 as stated: remove_player(id) takes out exactly the position of
\* player id, keeping the other positions and their order, and returns a
\* relabeling that gives, for each surviving old index, its new index.
C28_RemovePlayerRelabels ==
    PlayerRemoved =>
        LET id == m_args[1]
            old == m_before.players
            survivors == DOMAIN old \ {id}
        IN  /\ NumPlayers = Cardinality(DOMAIN old) - 1
            /\ \A i \in survivors : players[NewIndex(i, id)] = old[i]
            /\ \A i \in survivors :
                  /\ i \in DOMAIN g_ret
                  /\ g_ret[i] = NewIndex(i, id)

\* C30 as stated: whatever move(), reset() and remove_player(id) calls are
\* made, 0 <= current_player < number of players, and move() never indexes
\* the positions out of range.
C30_CurrentPlayerInRange ==
    state_ # "none" =>
        /\ current_player_ \in 0 .. NumPlayers - 1
        /\ b_pc # "undefined"

(***************************************************************************)
(* The number of sides of a dice.                                          *)
(***************************************************************************)

\* C29 as stated: constructing a dice with sides <= 1 is signalled at
\* construction, so no dice with sides <= 1 is ever in a state in which
\* roll() can be called.
C29_SidesAboveOne ==
    /\ die_pc = "made" => die_sides > 1
    /\ ENABLED DieRoll => die_sides > 1

\* C34: move() changes only the current player's position, the
\* current-player index and the status: every other player is where they
\* were when move() was called, and the number of players is the same.
C34_MoveFrame ==
    (g_op = "move" /\ b_pc = "built") =>
        /\ DOMAIN players = DOMAIN m_before.players
        /\ \A i \in DOMAIN players :
              i # m_before.cp => players[i] = m_before.players[i]

\* a move that took its player forward while another player was off the
\* start cell
C34_Witness ==
    /\ g_op = "move"
    /\ b_pc = "built"
    /\ players[m_before.cp] # m_before.players[m_before.cp]
    /\ \E i \in DOMAIN players : i # m_before.cp /\ players[i] # 0

\* number of read_index++ executed by the single consumer
Fetched == delivered + (IF pc[1] = "deref" THEN 1 ELSE 0)

\* C35: with a single consumer the read cursor lies in [0, L], L being the
\* length of one buffer; every element roll() accesses has an index in
\* [0, L); the cursor equals L only before the first read or after the read
\* of element L - 1 of the active buffer; so the test `cursor == L` of
\* roll() gives what `cursor >= L` gives.
C35_CursorRange ==
    /\ read_index \in 0 .. buffer_length \div 2
    /\ pc[1] = "deref" => idx[1] \in 0 .. (buffer_length \div 2) - 1
    /\ read_index = buffer_length \div 2 =>
          \/ Fetched = 0
          \/ idx[1] = (buffer_length \div 2) - 1
    /\ (read_index = buffer_length \div 2) <=> (read_index >= buffer_length \div 2)

\* the cursor is at L after the last element of a swapped-in buffer has
\* been read and returned, a second time
C35_Witness ==
    /\ read_index = buffer_length \div 2
    /\ pc[1] = "idle"
    /\ idx[1] = (buffer_length \div 2) - 1
    /\ swaps = 2
    /\ delivered = buffer_length

(***************************************************************************)
(* Properties of the two earlier headers.                                  *)
(***************************************************************************)

\* what move's documentation describes: the offsets applied one after the
\* other through exec_single_step, up to the first that reaches the end
RECURSIVE StepsInSequence(_, _, _, _)
StepsInSequence(h, a, position, moves) ==
    IF moves = << >> THEN [pos |-> position, out |-> "running"]
    ELSE LET r == exec_single_step(h, a, position, Head(moves)) IN
         IF r.out = "running" THEN StepsInSequence(h, a, r.pos, Tail(moves))
         ELSE r

\* the last call was a move on a running game, and it has returned
TypesMoveReturned ==
    th_op = "move" /\ th_pc = "built" /\ th_before.state = "running"

\* C31: in the headers whose move() drives the three steps with std::all_of,
\* move(a, b, c) moves the current player by up to three steps in sequence,
\* stops with the state finished when a step reaches the end, and otherwise
\* has applied all three offsets and made current_player its ring successor.
C31_AllOfMove ==
    TypesMoveReturned =>
        LET documented == StepsInSequence(th_header, th_arena,
                                          th_before.players[th_before.cp],
                                          th_args)
        IN  /\ documented.out = "finished" =>
                  /\ th_players[th_before.cp] = documented.pos
                  /\ th_state_ = "finished"
            /\ documented.out = "running" =>
                  /\ th_players[th_before.cp] = documented.pos
                  /\ th_state_ = "running"
                  /\ th_current_player_ =
                        (th_before.cp + 1) % Cardinality(DOMAIN th_players)

\* the jump list is sorted by source and no two jumps share a source
FromSortedDistinct(jumps) ==
    \A i, j \in 1 .. Len(jumps) : i < j => jumps[i][1] < jumps[j][1]

\* C32: in the headers that build the arena incrementally, for every
\* from-sorted jump list with pairwise distinct sources the arena holds
\* to - from at index from for every jump (from, to), 0 at every other
\* index, and has the length it has for the empty jump list.
C32_IncrementalArena ==
    (th_arena # << >> /\ FromSortedDistinct(th_jumps_)) =>
        /\ \A k \in 1 .. Len(th_jumps_) :
              Cell(th_arena, th_jumps_[k][1]) = th_jumps_[k][2] - th_jumps_[k][1]
        /\ \A c \in 0 .. end_position(th_arena) :
              (\A k \in 1 .. Len(th_jumps_) : th_jumps_[k][1] # c) =>
                  Cell(th_arena, c) = 0
        /\ Len(th_arena) = Len(IncrementalArena(th_header, << >>))

\* C33: in the header whose finalize() checks for chains, finalize() throws
\* "pre: chains of jumps found" iff the source of one jump of the list is the
\* destination of another; on every chain-free list, the empty one included,
\* it returns the builder with its jumps sorted by source.
C33_FinalizeChains ==
    (th_header = ChainCheckHeader /\ th_op = "finalize") =>
        /\ th_error = "pre: chains of jumps found" <=> HasChain(th_jumps_)
        /\ ~HasChain(th_jumps_) =>
              /\ th_pc = "finalized"
              /\ th_jumps_ = SortJumps(th_jumps_)

=============================================================================
